---------------------------- MODULE Spec2Model ----------------------------
(***************************************************************************)
(* A model of the corpus pipeline of AwajunTextExtractor                   *)
(* (src/pdf_extractor.py, class CorpusGenerator) and of its driver.        *)
(*                                                                         *)
(* Text is a sequence of characters.  A character is a one-element string; *)
(* the characters the TLA+ lexer cannot hold in a string literal are named *)
(* by an atom: "bullet" is U+2022, "backtick" is the grave accent, and the *)
(* accented letters are "aacute", "eacute", "iacute", "oacute", "ntilde".  *)
(***************************************************************************)
EXTENDS Integers, Sequences, FiniteSets, TLC

VARIABLES
    pc,                       \* the control point of the run or of the call
    existe_origen,            \* carpeta_origen_path.exists()
    staged,                   \* carpeta_origen: file name -> file content
    ilegibles,                \* the staged names whose open()/read() raises
    archivos_texto,           \* the list built from the two globs
    oraciones_candidatas,     \* extraer_oraciones_awajun: units still to classify
    oraciones_awajun,         \* extraer_oraciones_awajun: units kept so far
    todas_oraciones,          \* generar_corpus_monolingue: the running concatenation
    estadisticas_por_archivo, \* file name -> count
    carpeta_corpus,           \* carpeta_corpus: artifact name -> its lines
    indice,                   \* the position in archivos_texto of the document in hand
    aceptadas,                \* history: <<file name, accepted list>> per document, in processing order
    texto,                    \* the argument of the function being called
    idioma,                   \* what langdetect.detect answers for texto
    invocaciones,             \* how many times langdetect.detect was invoked
    resultado,                \* the value the call returned
    resultado2,               \* a second value of the call (the normalizer applied twice, the cleaner's arguments)
    args,                     \* main: the parsed command line
    fs,                       \* main: directory path -> (file name -> content)
    escritos,                 \* history: the <<directory, name>> procesar_pdfs wrote
    ruta_origen,              \* main: the carpeta_origen given to generar_corpus_monolingue
    ruta_corpus               \* main: the carpeta_corpus given to generar_corpus_monolingue

vars == <<pc, existe_origen, staged, ilegibles, archivos_texto, indice, oraciones_candidatas,
          oraciones_awajun, todas_oraciones, estadisticas_por_archivo,
          carpeta_corpus, aceptadas, texto, idioma, invocaciones,
          resultado, resultado2, args, fs, escritos, ruta_origen, ruta_corpus>>

runVars == <<existe_origen, staged, ilegibles, archivos_texto, indice,
             oraciones_candidatas,
             oraciones_awajun, todas_oraciones, estadisticas_por_archivo,
             carpeta_corpus, aceptadas>>

callVars == <<texto, idioma, invocaciones, resultado, resultado2>>

mainVars == <<args, fs, escritos, ruta_origen, ruta_corpus>>

-----------------------------------------------------------------------------
(* Characters and the string primitives of Python the code uses.           *)

Bullet == "bullet"
Backtick == "backtick"

\* str.isspace / the regex class \s, over the characters of the model.
Ws == {" ", "\t", "\n"}

\* the regex class \d
Digits == {"0", "1", "2", "3", "4", "5", "6", "7", "8", "9"}

UpperChars == <<"A", "B", "C", "D", "E", "F", "G", "H", "I", "J", "K", "L", "M",
                "N", "O", "P", "Q", "R", "S", "T", "U", "V", "W", "X", "Y", "Z",
                "Aacute", "Eacute", "Iacute", "Oacute", "Ntilde">>
LowerChars == <<"a", "b", "c", "d", "e", "f", "g", "h", "i", "j", "k", "l", "m",
                "n", "o", "p", "q", "r", "s", "t", "u", "v", "w", "x", "y", "z",
                "aacute", "eacute", "iacute", "oacute", "ntilde">>

\* str.lower() on one character
LowerChar(c) ==
    IF \E k \in 1..Len(UpperChars) : UpperChars[k] = c
    THEN LowerChars[CHOOSE k \in 1..Len(UpperChars) : UpperChars[k] = c]
    ELSE c

\* str.lower()
RECURSIVE Lower(_)
Lower(s) == IF s = <<>> THEN <<>> ELSE <<LowerChar(Head(s))>> \o Lower(Tail(s))

\* the number of consecutive characters of class C starting at position i
RECURSIVE RunLen(_, _, _)
RunLen(s, i, C) ==
    IF i >= 1 /\ i <= Len(s) /\ s[i] \in C THEN 1 + RunLen(s, i + 1, C) ELSE 0

\* the number of consecutive characters other than c starting at position i
RECURSIVE RunLenNot(_, _, _)
RunLenNot(s, i, c) ==
    IF i >= 1 /\ i <= Len(s) /\ s[i] # c THEN 1 + RunLenNot(s, i + 1, c) ELSE 0

\* the number of consecutive characters outside class C starting at position i
RECURSIVE RunLenNotIn(_, _, _)
RunLenNotIn(s, i, C) ==
    IF i >= 1 /\ i <= Len(s) /\ s[i] \notin C THEN 1 + RunLenNotIn(s, i + 1, C) ELSE 0

\* the number of characters of class C that end the string
RECURSIVE TrailLen(_, _)
TrailLen(s, C) ==
    IF Len(s) > 0 /\ s[Len(s)] \in C
    THEN 1 + TrailLen(SubSeq(s, 1, Len(s) - 1), C)
    ELSE 0

CharAt(s, i) == IF i >= 1 /\ i <= Len(s) THEN s[i] ELSE "EOS"

From(s, i) == SubSeq(s, i, Len(s))

\* str.strip()
Strip(s) ==
    LET a == RunLen(s, 1, Ws)
    IN  IF a = Len(s) THEN <<>>
        ELSE SubSeq(s, a + 1, Len(s) - TrailLen(s, Ws))

\* s[i:].startswith(p)
StartsWithAt(s, i, p) ==
    /\ i + Len(p) - 1 <= Len(s)
    /\ \A k \in 1..Len(p) : s[i + k - 1] = p[k]

\* p in s
Contains(s, p) == \E i \in 1..(Len(s) + 1) : StartsWithAt(s, i, p)

AllIn(s, C) == \A k \in 1..Len(s) : s[k] \in C

\* str.split(c) for a one-character separator: n separators give n + 1 pieces
RECURSIVE Split(_, _)
Split(s, c) ==
    LET n == RunLenNot(s, 1, c)
    IN  IF n = Len(s) THEN <<s>>
        ELSE <<SubSeq(s, 1, n)>> \o Split(From(s, n + 2), c)

\* the concatenation of a sequence of sequences
RECURSIVE Flatten(_)
Flatten(ss) == IF ss = <<>> THEN <<>> ELSE Head(ss) \o Flatten(Tail(ss))


-----------------------------------------------------------------------------
(* limpiar_texto: the markup normalizer.                                   *)

\* #{1,6}\s+ : a run of more than six # followed by whitespace matches only
\* from the place where six are left.
HeaderMatch(s, i) ==
    LET r == RunLen(s, i, {"#"})
        w == RunLen(s, i + r, Ws)
    IN  IF r >= 1 /\ r <= 6 /\ w >= 1 THEN r + w ELSE 0

\* \*\*([^*]+)\*\*
BoldMatch(s, i) ==
    LET n == RunLenNot(s, i + 2, "*")
    IN  IF /\ CharAt(s, i) = "*" /\ CharAt(s, i + 1) = "*"
           /\ n >= 1
           /\ CharAt(s, i + 2 + n) = "*" /\ CharAt(s, i + 3 + n) = "*"
        THEN n + 4 ELSE 0
BoldRepl(s, i, m) == SubSeq(s, i + 2, i + m - 3)

\* \*([^*]+)\*
ItalicMatch(s, i) ==
    LET n == RunLenNot(s, i + 1, "*")
    IN  IF CharAt(s, i) = "*" /\ n >= 1 /\ CharAt(s, i + 1 + n) = "*"
        THEN n + 2 ELSE 0
ItalicRepl(s, i, m) == SubSeq(s, i + 1, i + m - 2)

\* `([^`]+)`
CodeMatch(s, i) ==
    LET n == RunLenNot(s, i + 1, Backtick)
    IN  IF CharAt(s, i) = Backtick /\ n >= 1 /\ CharAt(s, i + 1 + n) = Backtick
        THEN n + 2 ELSE 0
CodeRepl(s, i, m) == SubSeq(s, i + 1, i + m - 2)

\* \[([^\]]+)\]\([^)]+\)
LinkLabelLen(s, i) == RunLenNot(s, i + 1, "]")
LinkMatch(s, i) ==
    LET n == LinkLabelLen(s, i)
        t == RunLenNot(s, i + 3 + n, ")")
    IN  IF /\ CharAt(s, i) = "[" /\ n >= 1
           /\ CharAt(s, i + 1 + n) = "]" /\ CharAt(s, i + 2 + n) = "("
           /\ t >= 1 /\ CharAt(s, i + 3 + n + t) = ")"
        THEN n + t + 4 ELSE 0
LinkRepl(s, i, m) == SubSeq(s, i + 1, i + LinkLabelLen(s, i))

ImageMarker ==
    <<"<", "!", "-", "-", " ", "i", "m", "a", "g", "e", " ", "-", "-", ">">>
ImageMatch(s, i) == IF StartsWithAt(s, i, ImageMarker) THEN Len(ImageMarker) ELSE 0

\* \n+  ->  \n
NewlinesMatch(s, i) == RunLen(s, i, {"\n"})

\* [ \t]+  ->  one space
BlanksMatch(s, i) == RunLen(s, i, {" ", "\t"})

\* \.{3,}
DotsMatch(s, i) ==
    LET r == RunLen(s, i, {"."}) IN IF r >= 3 THEN r ELSE 0

\* \s+  ->  one space
WsMatch(s, i) == RunLen(s, i, Ws)

\* re.sub for a pattern that never matches the empty string: the text is
\* scanned from the left; where the pattern matches (largo[i] > 0 is the length
\* of its match at i) the match is replaced by reemplazo[i] and the scan goes
\* on after it, elsewhere the character is copied.
ReSub(largo, reemplazo, s) ==
    LET F[i \in 1..(Len(s) + 1)] ==
            IF i > Len(s) THEN <<>>
            ELSE IF largo[i] > 0 THEN reemplazo[i] \o F[i + largo[i]]
                 ELSE <<s[i]>> \o F[i + 1]
    IN  F[1]

\* re.sub(r'#{1,6}\s+', '', t)
SubHeaders(t) ==
    ReSub([i \in 1..Len(t) |-> HeaderMatch(t, i)], [i \in 1..Len(t) |-> <<>>], t)

\* re.sub(r'\*\*([^*]+)\*\*', r'\1', t)
SubBold(t) ==
    ReSub([i \in 1..Len(t) |-> BoldMatch(t, i)],
          [i \in 1..Len(t) |-> BoldRepl(t, i, BoldMatch(t, i))], t)

\* re.sub(r'\*([^*]+)\*', r'\1', t)
SubItalic(t) ==
    ReSub([i \in 1..Len(t) |-> ItalicMatch(t, i)],
          [i \in 1..Len(t) |-> ItalicRepl(t, i, ItalicMatch(t, i))], t)

\* the code pattern of line 149
SubCode(t) ==
    ReSub([i \in 1..Len(t) |-> CodeMatch(t, i)],
          [i \in 1..Len(t) |-> CodeRepl(t, i, CodeMatch(t, i))], t)

\* re.sub(r'\[([^\]]+)\]\([^)]+\)', r'\1', t)
SubLinks(t) ==
    ReSub([i \in 1..Len(t) |-> LinkMatch(t, i)],
          [i \in 1..Len(t) |-> LinkRepl(t, i, LinkMatch(t, i))], t)

\* re.sub(r'<!-- image -->', '', t)
SubImages(t) ==
    ReSub([i \in 1..Len(t) |-> ImageMatch(t, i)], [i \in 1..Len(t) |-> <<>>], t)

\* re.sub(r'\n+', '\n', t)
SubNewlines(t) ==
    ReSub([i \in 1..Len(t) |-> NewlinesMatch(t, i)], [i \in 1..Len(t) |-> <<"\n">>], t)

\* re.sub(r'[ \t]+', ' ', t)
SubBlanks(t) ==
    ReSub([i \in 1..Len(t) |-> BlanksMatch(t, i)], [i \in 1..Len(t) |-> <<" ">>], t)

limpiar_texto(t) ==
    LET t1 == SubHeaders(t)
        t2 == SubBold(t1)
        t3 == SubItalic(t2)
        t4 == SubCode(t3)
        t5 == SubLinks(t4)
        t6 == SubImages(t5)
        t7 == SubNewlines(t6)
        t8 == SubBlanks(t7)
    IN  Strip(t8)

-----------------------------------------------------------------------------
(* limpiar_oracion: the cleaner.  Every pattern below is applied to text   *)
(* that was stripped or that \s* may consume to its end, so "$" (the end,  *)
(* or just before a final newline) is the end of the text.                 *)

\* re.sub(r'^-\s+', '', oracion)
StripListDash(s) ==
    IF CharAt(s, 1) = "-" /\ CharAt(s, 2) \in Ws
    THEN From(s, 2 + RunLen(s, 2, Ws))
    ELSE s

\* [.:]?\s*\d+\s*$ matches from position i to the end
TrailingNumberAt(s, i) ==
    LET a == IF CharAt(s, i) \in {".", ":"} THEN 1 ELSE 0
        w == RunLen(s, i + a, Ws)
        d == RunLen(s, i + a + w, Digits)
        z == RunLen(s, i + a + w + d, Ws)
    IN  d >= 1 /\ i + a + w + d + z = Len(s) + 1

\* \.{3,}.*?\d+\s*$ matches from position i to the end ("." is any
\* character but a newline)
LeaderAt(s, i) ==
    /\ RunLen(s, i, {"."}) >= 3
    /\ \E j \in (i + 3)..Len(s) :
          /\ \A p \in (i + 3)..(j - 1) : s[p] # "\n"
          /\ LET d == RunLen(s, j, Digits)
                 z == RunLen(s, j + d, Ws)
             IN  d >= 1 /\ j + d + z = Len(s) + 1

\* re.sub(pat, '', s) for a pattern anchored at the end, desde being the
\* positions from which it matches to the end: the text before the leftmost of
\* them; the whole text when there is none
CutAtLeftmost(desde, s) ==
    IF desde = {} THEN s
    ELSE SubSeq(s, 1, (CHOOSE i \in desde : \A j \in desde : i <= j) - 1)

\* re.sub(r'[.:]?\s*\d+\s*$', '', oracion)
StripTrailingNumber(s) ==
    CutAtLeftmost({i \in 1..Len(s) : TrailingNumberAt(s, i)}, s)

\* re.sub(r'\.{3,}.*?\d+\s*$', '', oracion)
StripLeader(s) ==
    CutAtLeftmost({i \in 1..Len(s) : LeaderAt(s, i)}, s)

\* re.sub(r'\.{3,}', '', oracion)
StripDots(s) ==
    ReSub([i \in 1..Len(s) |-> DotsMatch(s, i)], [i \in 1..Len(s) |-> <<>>], s)

\* re.sub(r'\s+', ' ', oracion)
SubWs(s) ==
    ReSub([i \in 1..Len(s) |-> WsMatch(s, i)], [i \in 1..Len(s) |-> <<" ">>], s)

\* re.sub(r'^,\s+', '', oracion)
StripLeadingComma(s) ==
    IF CharAt(s, 1) = "," /\ CharAt(s, 2) \in Ws
    THEN From(s, 2 + RunLen(s, 2, Ws))
    ELSE s

\* re.match(r'^[\s\|\-]+$', linea): a table divider
EsFilaSeparadora(s) == s # <<>> /\ AllIn(s, Ws \cup {"|", "-"})

\* not celda or re.match(r'^[\-\s]+$', celda)
CeldaVaciaOGuiones(c) == c = <<>> \/ AllIn(c, Ws \cup {"-"})

\* re.match(r'^\d+$', celda)
SoloDigitos(c) == c # <<>> /\ AllIn(c, Digits)

\* the leader and dot-run removal both table passes apply to a cell
LimpiarPuntosCelda(c) == Strip(StripDots(StripLeader(c)))

\* the stripped pieces of a list that are longer than 3 characters
RECURSIVE SubOracionesLargas(_)
SubOracionesLargas(subs) ==
    IF subs = <<>> THEN <<>>
    ELSE LET sub == Strip(Head(subs))
         IN  (IF sub # <<>> /\ Len(sub) > 3 THEN <<sub>> ELSE <<>>)
             \o SubOracionesLargas(Tail(subs))

\* limpiar_oracion, lines 186-210: celdas_limpias
RECURSIVE CeldasLimpias(_)
CeldasLimpias(celdas) ==
    IF celdas = <<>> THEN <<>>
    ELSE LET celda == Strip(Head(celdas))
             limpia == LimpiarPuntosCelda(celda)
             aporta ==
                 IF CeldaVaciaOGuiones(celda) \/ SoloDigitos(celda) THEN <<>>
                 ELSE IF \E k \in 1..Len(limpia) : limpia[k] = Bullet
                      THEN SubOracionesLargas(Split(limpia, Bullet))
                      ELSE IF Len(limpia) > 3 THEN <<limpia>> ELSE <<>>
         IN  aporta \o CeldasLimpias(Tail(celdas))

\* limpiar_oracion, lines 163-174: the steps before the table test
LimpiarPrefijoSufijo(oracion) ==
    StripDots(StripLeader(StripTrailingNumber(StripListDash(Strip(oracion)))))

\* limpiar_oracion, lines 219-229: the steps after the table test
LimpiarResto(o) ==
    LET o1 == IF CharAt(o, 1) = Bullet THEN Strip(Tail(o)) ELSE o
        o2 == StripLeadingComma(o1)
    IN  Strip(SubWs(o2))

limpiar_oracion(oracion) ==
    LET o == LimpiarPrefijoSufijo(oracion)
    IN  IF \E k \in 1..Len(o) : o[k] = "|"
        THEN IF EsFilaSeparadora(o) THEN <<>>
             ELSE LET celdas_limpias == CeldasLimpias(Split(o, "|"))
                  IN  IF celdas_limpias # <<>> THEN celdas_limpias[1] ELSE <<>>
        ELSE LimpiarResto(o)

-----------------------------------------------------------------------------
(* The language classifier.                                                *)

\* pattern r'<!-- image -->' under re.match and re.IGNORECASE: a prefix
RuidoImagen(s) == StartsWithAt(Lower(s), 1, ImageMarker)

\* r'^[IVX]+\.$' under re.IGNORECASE
RuidoRomano(s) ==
    /\ Len(s) >= 2
    /\ s[Len(s)] = "."
    /\ AllIn(SubSeq(s, 1, Len(s) - 1), {"I", "V", "X", "i", "v", "x"})

\* r'^#{1,6}\s+$'
RuidoHeaderVacio(s) ==
    LET r == RunLen(s, 1, {"#"})
        w == RunLen(s, 1 + r, Ws)
    IN  r >= 1 /\ r <= 6 /\ w >= 1 /\ r + w = Len(s)

\* r'^\s*c+\s*$' for the rule characters -, = and *
RuidoLinea(s, c) ==
    LET a == RunLen(s, 1, Ws)
        r == RunLen(s, 1 + a, {c})
        z == RunLen(s, 1 + a + r, Ws)
    IN  r >= 1 /\ a + r + z = Len(s)

\* self.patrones_ruido, each applied with re.match
patrones_ruido(s) ==
    \/ RuidoImagen(s)
    \/ SoloDigitos(s)
    \/ RuidoRomano(s)
    \/ RuidoHeaderVacio(s)
    \/ RuidoLinea(s, "-")
    \/ RuidoLinea(s, "=")
    \/ RuidoLinea(s, "*")

es_ruido_tecnico(t) == patrones_ruido(Strip(t))

indicadores_administrativo == {
        <<"e", "v", "a", "l", "u", "a", "c", "i", "oacute", "n">>,
        <<"r", "e", "s", "u", "l", "t", "a", "d", "o", "s">>,
        <<"e", "s", "t", "i", "m", "a", "d", "o">>,
        <<"p", "a", "d", "r", "e">>,
        <<"m", "a", "d", "r", "e">>,
        <<"f", "a", "m", "i", "l", "i", "a">>,
        <<"m", "i", "n", "i", "s", "t", "e", "r", "i", "o">>,
        <<"u", "n", "i", "v", "e", "r", "s", "i", "d", "a", "d">>,
        <<"d", "e", "p", "a", "r", "t", "a", "m", "e", "n", "t", "o">>,
        <<"r", "e", "g", "i", "oacute", "n">>,
        <<"p", "r", "o", "v", "i", "n", "c", "i", "a">>,
        <<"n", "i", "v", "e", "l">>,
        <<"g", "r", "a", "d", "o">>,
        <<"a", "ntilde", "o">>,
        <<"f", "e", "c", "h", "a">>,
        <<"p", "aacute", "g", "i", "n", "a">>,
        <<"iacute", "n", "d", "i", "c", "e">>,
        <<"c", "a", "p", "iacute", "t", "u", "l", "o">>,
        <<"a", "n", "e", "x", "o">>,
        <<"b", "i", "b", "l", "i", "o", "g", "r", "a", "f", "iacute", "a">>,
        <<"r", "e", "f", "e", "r", "e", "n", "c", "i", "a", "s">>,
        <<"t", "a", "b", "l", "a">>,
        <<"g", "r", "aacute", "f", "i", "c", "o">>,
        <<"p", "r", "e", "g", "u", "n", "t", "a">>,
        <<"r", "e", "s", "p", "u", "e", "s", "t", "a">>,
        <<"i", "n", "s", "t", "r", "u", "c", "c", "i", "oacute", "n">>,
        <<"p", "r", "o", "c", "e", "d", "i", "m", "i", "e", "n", "t", "o">>
    }

es_administrativo(t) ==
    LET texto_lower == Lower(t)
    IN  \E indicador \in indicadores_administrativo : Contains(texto_lower, indicador)

\* What langdetect.detect may do: return a language code or raise
\* LangDetectException.  "qu" and "tl" stand for the codes outside the list
\* the classifier excludes; "unknown" is the answer the claims also name.
LangDetectException == "LangDetectException"
CodigosIdioma == {"es", "en", "fr", "it", "pt", "de", "qu", "tl", "unknown"}
RespuestasDetect == CodigosIdioma \cup {LangDetectException}

MinimoDeteccion == 10

\* detectar_idioma without its test of the length
detectar_idioma_sin_minimo(t, respuesta) ==
    [idioma |-> IF respuesta = LangDetectException THEN "unknown" ELSE respuesta,
     invocado |-> 1]

\* detectar_idioma: the code it returns and whether detect was invoked
detectar_idioma(t, respuesta) ==
    IF Len(Strip(t)) < MinimoDeteccion
    THEN [idioma |-> "unknown", invocado |-> 0]
    ELSE [idioma |-> IF respuesta = LangDetectException THEN "unknown" ELSE respuesta,
          invocado |-> 1]

IdiomasExcluidos == {"es", "en", "fr", "it", "pt", "de"}

\* es_probablemente_espanol without its test of the other known languages
es_probablemente_espanol_solo_es(t, respuesta) ==
    IF es_ruido_tecnico(t) THEN [valor |-> TRUE, invocado |-> 0]
    ELSE IF es_administrativo(t) THEN [valor |-> TRUE, invocado |-> 0]
    ELSE LET d == detectar_idioma(t, respuesta)
         IN  [valor |-> d.idioma = "es", invocado |-> d.invocado]

\* es_probablemente_espanol: the decision and the number of invocations of
\* detect it made
es_probablemente_espanol(t, respuesta) ==
    IF es_ruido_tecnico(t) THEN [valor |-> TRUE, invocado |-> 0]
    ELSE IF es_administrativo(t) THEN [valor |-> TRUE, invocado |-> 0]
    ELSE LET d == detectar_idioma(t, respuesta)
         IN  [valor |-> d.idioma \in IdiomasExcluidos, invocado |-> d.invocado]

-----------------------------------------------------------------------------
(* The segmenter: procesar_tablas and segmentar_oraciones.                 *)

TieneBarra(linea) == \E k \in 1..Len(linea) : linea[k] = "|"
TieneBullet(s) == \E k \in 1..Len(s) : s[k] = Bullet

UmbralTabla == 3
UmbralLinea == 3

\* each piece cleaned, kept when its cleaned text is longer than 3 characters
RECURSIVE LimpiasDeTabla(_)
LimpiasDeTabla(subs) ==
    IF subs = <<>> THEN <<>>
    ELSE LET limpia == limpiar_oracion(Head(subs))
         IN  (IF limpia # <<>> /\ Len(limpia) > UmbralTabla THEN <<limpia>> ELSE <<>>)
             \o LimpiasDeTabla(Tail(subs))

\* procesar_tablas, lines 246-270: the fragments of one cell that are handed
\* to the cleaner, in the order of the calls
FragmentosDeCelda(celda_cruda) ==
    LET celda == Strip(celda_cruda)
        limpia == LimpiarPuntosCelda(celda)
    IN  IF CeldaVaciaOGuiones(celda) THEN <<>>
        ELSE IF SoloDigitos(celda) THEN <<>>
        ELSE IF limpia = <<>> \/ Len(limpia) <= UmbralTabla THEN <<>>
        ELSE IF TieneBullet(limpia) THEN Split(limpia, Bullet)
        ELSE <<limpia>>

\* procesar_tablas, lines 246-272: the units of one cell
UnidadesDeCelda(celda_cruda) == LimpiasDeTabla(FragmentosDeCelda(celda_cruda))

RECURSIVE UnidadesDeCeldas(_)
UnidadesDeCeldas(celdas) ==
    IF celdas = <<>> THEN <<>>
    ELSE UnidadesDeCelda(Head(celdas)) \o UnidadesDeCeldas(Tail(celdas))

\* a table pass that hands the whole row to the cleaner, which returns its
\* first valid cell only
UnidadesDeFilaPrimeraCelda(linea) ==
    IF ~TieneBarra(linea) THEN <<>>
    ELSE IF EsFilaSeparadora(linea) THEN <<>>
    ELSE LimpiasDeTabla(<<linea>>)

\* procesar_tablas, lines 239-272: the units of one line
UnidadesDeFila(linea) ==
    IF ~TieneBarra(linea) THEN <<>>
    ELSE IF EsFilaSeparadora(linea) THEN <<>>
    ELSE UnidadesDeCeldas(Split(linea, "|"))

RECURSIVE UnidadesDeFilas(_)
UnidadesDeFilas(lineas) ==
    IF lineas = <<>> THEN <<>>
    ELSE UnidadesDeFila(Head(lineas)) \o UnidadesDeFilas(Tail(lineas))

procesar_tablas(t) == UnidadesDeFilas(Split(t, "\n"))

\* each piece cleaned, kept when its cleaned text has at least 3 characters
RECURSIVE LimpiasDeLinea(_)
LimpiasDeLinea(subs) ==
    IF subs = <<>> THEN <<>>
    ELSE LET limpia == limpiar_oracion(Head(subs))
         IN  (IF limpia # <<>> /\ Len(limpia) >= UmbralLinea THEN <<limpia>> ELSE <<>>)
             \o LimpiasDeLinea(Tail(subs))

\* re.split(r'[.!?]+', linea): the pieces between the runs of . ! ?
RECURSIVE SplitPuntuacion(_)
SplitPuntuacion(s) ==
    LET a == RunLenNotIn(s, 1, {".", "!", "?"})
        m == RunLen(s, a + 1, {".", "!", "?"})
    IN  IF a = Len(s) THEN <<s>>
        ELSE <<SubSeq(s, 1, a)>> \o SplitPuntuacion(From(s, a + m + 1))

\* re.search(r'[.!?;:]$', linea) on a stripped line
TerminaEnPuntuacion(linea) ==
    linea # <<>> /\ linea[Len(linea)] \in {".", "!", "?", ";", ":"}

\* a line pass that does not skip the lines of tables
FragmentosDeLineaSinSaltar(linea_cruda) ==
    LET linea == Strip(linea_cruda)
    IN  IF Len(linea) < UmbralLinea THEN <<>>
        ELSE IF TieneBullet(linea) THEN Split(linea, Bullet)
        ELSE IF ~TerminaEnPuntuacion(linea) THEN <<linea>>
        ELSE SplitPuntuacion(linea)

\* segmentar_oraciones, lines 291-319: the fragments of one line that are
\* handed to the cleaner, in the order of the calls
FragmentosDeLinea(linea_cruda) ==
    LET linea == Strip(linea_cruda)
    IN  IF TieneBarra(linea_cruda) THEN <<>>
        ELSE IF Len(linea) < UmbralLinea THEN <<>>
        ELSE IF TieneBullet(linea) THEN Split(linea, Bullet)
        ELSE IF ~TerminaEnPuntuacion(linea) THEN <<linea>>
        ELSE SplitPuntuacion(linea)

\* segmentar_oraciones, lines 291-321: the units of one line
UnidadesDeLinea(linea_cruda) == LimpiasDeLinea(FragmentosDeLinea(linea_cruda))

RECURSIVE UnidadesDeLineas(_)
UnidadesDeLineas(lineas) ==
    IF lineas = <<>> THEN <<>>
    ELSE UnidadesDeLinea(Head(lineas)) \o UnidadesDeLineas(Tail(lineas))

segmentar_oraciones(t) ==
    LET oraciones_tabla == procesar_tablas(t)
    IN  oraciones_tabla \o UnidadesDeLineas(Split(t, "\n"))

\* procesar_tablas, lines 239-270: the fragments of one line that the table
\* pass hands to the cleaner
FragmentosDeFila(linea) ==
    IF ~TieneBarra(linea) THEN <<>>
    ELSE IF EsFilaSeparadora(linea) THEN <<>>
    ELSE LET celdas == Split(linea, "|")
         IN  Flatten([k \in 1..Len(celdas) |-> FragmentosDeCelda(celdas[k])])

\* every argument limpiar_oracion is called with during segmentar_oraciones(t),
\* in the order of the calls: the table pass over all lines, then the line pass
LlamadasLimpiar(t) ==
    LET lineas == Split(t, "\n")
    IN  Flatten([k \in 1..Len(lineas) |-> FragmentosDeFila(lineas[k])])
        \o Flatten([k \in 1..Len(lineas) |-> FragmentosDeLinea(lineas[k])])

-----------------------------------------------------------------------------
(* generar_corpus_monolingue: one run over the staging directory.          *)

EmptyMap == [x \in {} |-> <<>>]

Put(f, k, v) == [x \in DOMAIN f \cup {k} |-> IF x = k THEN v ELSE f[x]]

EndsWith(s, suf) ==
    Len(s) >= Len(suf) /\ StartsWithAt(s, Len(s) - Len(suf) + 1, suf)

ExtMd == <<".", "m", "d">>
ExtTxt == <<".", "t", "x", "t">>

\* Path.stem: the name without its last suffix
Stem(nombre) ==
    LET dots == {k \in 2..Len(nombre) : nombre[k] = "."}
    IN  IF dots = {} THEN nombre
        ELSE SubSeq(nombre, 1, (CHOOSE k \in dots : \A j \in dots : j <= k) - 1)

\* archivo.stem + "_awajun.txt"
NombreAwajun(nombre) ==
    Stem(nombre) \o <<"_", "a", "w", "a", "j", "u", "n", ".", "t", "x", "t">>

\* "awajun_corpus_completo.txt"
CorpusConsolidado ==
    <<"a", "w", "a", "j", "u", "n", "_", "c", "o", "r", "p", "u", "s", "_",
      "c", "o", "m", "p", "l", "e", "t", "o", ".", "t", "x", "t">>

\* every order in which a directory listing may give the files of S
Ordenes(S) ==
    {q \in [1..Cardinality(S) -> S] : \A x \in S : \E k \in DOMAIN q : q[k] = x}

\* Path.glob("*" + ext): the matching names, in the order the directory
\* listing gives them, which nothing in the code fixes
Glob(dir, ext) == Ordenes({n \in DOMAIN dir : EndsWith(n, ext)})

\* a deduplication that keeps the last occurrence of each element instead
RECURSIVE DictFromKeysUltimo(_)
DictFromKeysUltimo(xs) ==
    IF xs = <<>> THEN <<>>
    ELSE LET r == DictFromKeysUltimo(Tail(xs))
             x == Head(xs)
         IN  IF \E k \in 1..Len(r) : r[k] = x THEN r ELSE <<x>> \o r

\* list(dict.fromkeys(xs)): the first occurrence of each element, in order
RECURSIVE DictFromKeys(_)
DictFromKeys(xs) ==
    IF xs = <<>> THEN <<>>
    ELSE LET r == DictFromKeys(SubSeq(xs, 1, Len(xs) - 1))
             x == xs[Len(xs)]
         IN  IF \E k \in 1..Len(r) : r[k] = x THEN r ELSE Append(r, x)

\* lines 355-357: the staging directory is missing
SinCarpeta ==
    /\ pc = "inicio"
    /\ ~existe_origen
    /\ pc' = "fin"
    /\ UNCHANGED <<runVars, callVars, mainVars>>

\* lines 360-372: mkdir, the two globs, the early return on an empty list
BuscarArchivos ==
    /\ pc = "inicio"
    /\ existe_origen
    /\ \E md \in Glob(staged, ExtMd), txt \in Glob(staged, ExtTxt) :
          /\ archivos_texto' = md \o txt
          /\ pc' = IF md \o txt = <<>> THEN "fin" ELSE "extraer"
          /\ indice' = 1
    /\ todas_oraciones' = <<>>
    /\ estadisticas_por_archivo' = EmptyMap
    /\ UNCHANGED <<existe_origen, staged, ilegibles, oraciones_candidatas, oraciones_awajun,
                   carpeta_corpus, aceptadas, callVars, mainVars>>

\* a read whose failure is not caught: the exception ends the run
ExtraerOracionesSinCaptura ==
    /\ pc = "extraer"
    /\ LET archivo == archivos_texto[indice]
       IN  IF archivo \in ilegibles
           THEN /\ pc' = "fin"
                /\ UNCHANGED <<oraciones_candidatas, oraciones_awajun>>
           ELSE /\ oraciones_candidatas' = segmentar_oraciones(limpiar_texto(staged[archivo]))
                /\ oraciones_awajun' = <<>>
                /\ pc' = "filtrar"
    /\ UNCHANGED <<existe_origen, staged, ilegibles, archivos_texto, indice, todas_oraciones,
                   estadisticas_por_archivo, carpeta_corpus, aceptadas, callVars, mainVars>>

\* lines 374-376 and 325-341: the next file is read, normalized and segmented;
\* a read that raises gives no sentences
ExtraerOraciones ==
    /\ pc = "extraer"
    /\ LET archivo == archivos_texto[indice]
       IN  oraciones_candidatas' =
               IF archivo \in ilegibles THEN <<>>
               ELSE segmentar_oraciones(limpiar_texto(staged[archivo]))
    /\ oraciones_awajun' = <<>>
    /\ pc' = "filtrar"
    /\ UNCHANGED <<existe_origen, staged, ilegibles, archivos_texto, indice, todas_oraciones,
                   estadisticas_por_archivo, carpeta_corpus, aceptadas, callVars, mainVars>>

\* lines 342-344: one candidate is classified, with whatever detect answers
FiltrarOracion ==
    /\ pc = "filtrar"
    /\ oraciones_candidatas # <<>>
    /\ \E respuesta \in RespuestasDetect :
          LET oracion == Head(oraciones_candidatas)
          IN  oraciones_awajun' =
                  IF es_probablemente_espanol(oracion, respuesta).valor
                  THEN oraciones_awajun
                  ELSE Append(oraciones_awajun, oracion)
    /\ oraciones_candidatas' = Tail(oraciones_candidatas)
    /\ UNCHANGED <<pc, existe_origen, staged, ilegibles, archivos_texto, indice, todas_oraciones,
                   estadisticas_por_archivo, carpeta_corpus, aceptadas, callVars, mainVars>>

\* lines 346 and 378-392: the document's sentences are written and counted
GuardarDocumento ==
    /\ pc = "filtrar"
    /\ oraciones_candidatas = <<>>
    /\ LET archivo == archivos_texto[indice]
           oraciones == oraciones_awajun
       IN  /\ IF oraciones # <<>>
              THEN /\ carpeta_corpus' = Put(carpeta_corpus, NombreAwajun(archivo), oraciones)
                   /\ todas_oraciones' = todas_oraciones \o oraciones
                   /\ estadisticas_por_archivo' =
                          Put(estadisticas_por_archivo, archivo, Len(oraciones))
              ELSE /\ estadisticas_por_archivo' = Put(estadisticas_por_archivo, archivo, 0)
                   /\ UNCHANGED <<carpeta_corpus, todas_oraciones>>
           /\ aceptadas' = Append(aceptadas, <<archivo, oraciones>>)
    /\ indice' = indice + 1
    /\ pc' = IF indice = Len(archivos_texto) THEN "consolidar" ELSE "extraer"
    /\ UNCHANGED <<existe_origen, staged, ilegibles, archivos_texto, oraciones_candidatas,
                   oraciones_awajun, callVars, mainVars>>

\* lines 394-401: the duplicates are removed and the corpus is written
ConsolidarCorpus ==
    /\ pc = "consolidar"
    /\ LET oraciones_unicas == DictFromKeys(todas_oraciones)
       IN  carpeta_corpus' = Put(carpeta_corpus, CorpusConsolidado, oraciones_unicas)
    /\ pc' = "fin"
    /\ UNCHANGED <<existe_origen, staged, ilegibles, archivos_texto, indice, oraciones_candidatas,
                   oraciones_awajun, todas_oraciones, estadisticas_por_archivo,
                   aceptadas, callVars, mainVars>>

Next ==
    \/ SinCarpeta
    \/ BuscarArchivos
    \/ ExtraerOraciones
    \/ FiltrarOracion
    \/ GuardarDocumento
    \/ ConsolidarCorpus

\* the argparse defaults of main.py
ArgsPorDefecto ==
    [carpeta_pdfs |-> "data", archivo_corpus |-> "corpus/awajun_corpus.txt",
     solo_extraccion |-> FALSE, solo_corpus |-> FALSE, formato |-> "md"]

\* the variables of main, at rest when the corpus stage or one function is
\* run on its own
MainIdle ==
    /\ args = ArgsPorDefecto
    /\ fs = EmptyMap
    /\ escritos = {}
    /\ ruta_origen = ""
    /\ ruta_corpus = ""

\* the variables of a single call, at rest during a run
CallIdle ==
    /\ texto = <<>>
    /\ idioma = "unknown"
    /\ invocaciones = 0
    /\ resultado = <<>>
    /\ resultado2 = <<>>

\* a run that starts on the staging directory dir
InitRun(existe, dir, unreadable) ==
    /\ pc = "inicio"
    /\ existe_origen = existe
    /\ staged = dir
    /\ ilegibles = unreadable
    /\ archivos_texto = <<>>
    /\ indice = 0
    /\ oraciones_candidatas = <<>>
    /\ oraciones_awajun = <<>>
    /\ todas_oraciones = <<>>
    /\ estadisticas_por_archivo = EmptyMap
    /\ carpeta_corpus = EmptyMap
    /\ aceptadas = <<>>
    /\ CallIdle
    /\ MainIdle

\* the staged file names of the model: two stems shared between the two
\* extensions, and names whose glob order is not their lexicographic order
Nombres == {
    <<"a", ".", "m", "d">>,
    <<"b", ".", "m", "d">>,
    <<"a", ".", "t", "x", "t">>,
    <<"c", ".", "t", "x", "t">>
    }

Atsa == <<"A", "t", "s", "a", " ", "w", "i", " ", "t", "i", "k", "i", "t", "c", "h", "a">>
Nuwa == <<"n", "u", "w", "a">>
Aents == <<"a", "e", "n", "t", "s">>
Yumi == <<"y", "u", "m", "i">>
NL == <<"\n">>

\* the staged documents of the model: sentences shared between documents, a
\* sentence repeated inside one document, a document of noise only, a table
Documentos == {
    Atsa \o NL \o Nuwa,
    Aents \o NL \o Atsa \o NL \o Aents,
    <<"1", "2">> \o NL \o <<"-", "-", "-">>,
    <<"|", " ">> \o Yumi \o <<" ", "|", " ", "4", " ", "|", " ">> \o Nuwa \o <<" ", "|">>
    }

MaxArchivos == 2

Directorios ==
    UNION {[S -> Documentos] : S \in {T \in SUBSET Nombres : Cardinality(T) <= MaxArchivos}}

Init ==
    \/ InitRun(FALSE, EmptyMap, {})
    \/ \E dir \in Directorios :
          \E unreadable \in SUBSET (DOMAIN dir) : InitRun(TRUE, dir, unreadable)

Spec == Init /\ [][Next]_vars

-----------------------------------------------------------------------------
(* Single calls of the pure functions, on every text built from at most a  *)
(* bounded number of pieces.                                               *)

\* the texts made of at most n pieces of Trozos
Entradas(Trozos, n) ==
    {Flatten(q) : q \in UNION {[1..k -> Trozos] : k \in 0..n}}

\* the variables of a run, at rest during a single call
RunIdle ==
    /\ existe_origen = FALSE
    /\ staged = EmptyMap
    /\ ilegibles = {}
    /\ archivos_texto = <<>>
    /\ indice = 0
    /\ oraciones_candidatas = <<>>
    /\ oraciones_awajun = <<>>
    /\ todas_oraciones = <<>>
    /\ estadisticas_por_archivo = EmptyMap
    /\ carpeta_corpus = EmptyMap
    /\ aceptadas = <<>>

\* a call about to be made on the text t, detect answering r for it
InitCall(t, r) ==
    /\ pc = "llamar"
    /\ RunIdle
    /\ MainIdle
    /\ texto = t
    /\ idioma = r
    /\ invocaciones = 0
    /\ resultado = <<>>
    /\ resultado2 = <<>>

(* limpiar_texto, once and then again on its own result *)

TrozosMarcado == {<<"#">>, <<"*">>, <<Backtick>>, <<" ">>, <<"\n">>, <<"a">>}
MaxTrozosMarcado == 5

InitLimpiarTexto ==
    \E t \in Entradas(TrozosMarcado, MaxTrozosMarcado) : InitCall(t, "unknown")

Normalizar ==
    /\ pc = "llamar"
    /\ resultado' = limpiar_texto(texto)
    /\ pc' = "repetir"
    /\ UNCHANGED <<runVars, mainVars, texto, idioma, invocaciones, resultado2>>

NormalizarOtraVez ==
    /\ pc = "repetir"
    /\ resultado2' = limpiar_texto(resultado)
    /\ pc' = "fin"
    /\ UNCHANGED <<runVars, mainVars, texto, idioma, invocaciones, resultado>>

NextLimpiarTexto == Normalizar \/ NormalizarOtraVez

SpecLimpiarTexto == InitLimpiarTexto /\ [][NextLimpiarTexto]_vars

(* limpiar_oracion *)

Yusa == <<"Y", "u", "s", "a">>
Puntos3 == <<".", ".", ".">>
TrozosOracion ==
    {<<"-", " ">>, Yusa, <<" ">>, Puntos3, <<".">>, <<"6">>, <<Bullet>>}
MaxTrozosOracion == 6

InitLimpiarOracion ==
    \E t \in Entradas(TrozosOracion, MaxTrozosOracion) : InitCall(t, "unknown")

LimpiarOracion ==
    /\ pc = "llamar"
    /\ resultado' = limpiar_oracion(texto)
    /\ pc' = "fin"
    /\ UNCHANGED <<runVars, mainVars, texto, idioma, invocaciones, resultado2>>

NextLimpiarOracion == LimpiarOracion

SpecLimpiarOracion == InitLimpiarOracion /\ [][NextLimpiarOracion]_vars

(* es_probablemente_espanol, on cleaned sentences: every caller passes the *)
(* cleaner's result, which has no whitespace at either end                 *)

Tabla == <<"T", "a", "b", "l", "a">>
TrozosSentencia ==
    {Nuwa, Aents, <<" ">>, Tabla, <<"1", "2">>, <<"I", "V", ".">>, <<"-">>}
MaxTrozosSentencia == 3

Sentencias ==
    {t \in Entradas(TrozosSentencia, MaxTrozosSentencia) : Strip(t) = t}

InitClasificador ==
    \E t \in Sentencias, r \in RespuestasDetect : InitCall(t, r)

Clasificar ==
    /\ pc = "llamar"
    /\ LET r == es_probablemente_espanol(texto, idioma)
       IN  /\ resultado' = r.valor
           /\ invocaciones' = invocaciones + r.invocado
    /\ pc' = "fin"
    /\ UNCHANGED <<runVars, mainVars, texto, idioma, resultado2>>

NextClasificador == Clasificar

SpecClasificador == InitClasificador /\ [][NextClasificador]_vars

(* segmentar_oraciones, on one line *)

Nombre == <<"N", "o", "m", "b", "r", "e">>
TrozosLinea ==
    {<<"|">>, Nombre, <<"a", "b">>, <<"4">>, <<"-">>, <<" ">>, <<Bullet>>, <<".">>}
MaxTrozosLinea == 5

InitSegmentar ==
    \E t \in Entradas(TrozosLinea, MaxTrozosLinea) : InitCall(t, "unknown")

Segmentar ==
    /\ pc = "llamar"
    /\ resultado' = segmentar_oraciones(texto)
    /\ pc' = "fin"
    /\ UNCHANGED <<runVars, mainVars, texto, idioma, invocaciones, resultado2>>

NextSegmentar == Segmentar

SpecSegmentar == InitSegmentar /\ [][NextSegmentar]_vars

(* segmentar_oraciones, on normalized texts of several lines, with the     *)
(* calls it makes to the cleaner                                           *)

Fila == Nuwa \o <<"|", "4", "|">> \o Aents
TrozosTexto ==
    {Fila, Nombre, <<"|">>, <<"\n">>, <<Bullet>>, <<".">>}
MaxTrozosTexto == 4

\* the texts limpiar_texto leaves as they are
TextosNormalizados ==
    {t \in Entradas(TrozosTexto, MaxTrozosTexto) : limpiar_texto(t) = t}

InitSegmentarTexto ==
    \E t \in TextosNormalizados : InitCall(t, "unknown")

SegmentarTexto ==
    /\ pc = "llamar"
    /\ resultado' = segmentar_oraciones(texto)
    /\ resultado2' = LlamadasLimpiar(texto)
    /\ pc' = "fin"
    /\ UNCHANGED <<runVars, mainVars, texto, idioma, invocaciones>>

NextSegmentarTexto == SegmentarTexto

SpecSegmentarTexto == InitSegmentarTexto /\ [][NextSegmentarTexto]_vars

(* One run over a staging directory that holds one file of any content.    *)

TrozosContenido ==
    {<<"a">>, <<";">>, <<"1">>, <<" ">>, <<"\n">>, <<"|">>, <<"-">>}
MaxTrozosContenido == 4

UnArchivo == <<"a", ".", "m", "d">>

InitExtraer ==
    \/ InitRun(FALSE, EmptyMap, {})
    \/ InitRun(TRUE, EmptyMap, {})
    \/ \E t \in Entradas(TrozosContenido, MaxTrozosContenido), unreadable \in SUBSET {UnArchivo} :
          InitRun(TRUE, [n \in {UnArchivo} |-> t], unreadable)

SpecExtraer == InitExtraer /\ [][Next]_vars

-----------------------------------------------------------------------------
(* main.py: the extraction stage (PDFExtractor.procesar_pdfs) followed by  *)
(* the corpus stage.  A directory is a path of fs; the content of a PDF is *)
(* the markup extraer_texto_pdf returns for it, empty when the conversion  *)
(* fails.  The corpus stage's directory of artifacts is carpeta_corpus,    *)
(* found at ruta_corpus.                                                   *)

ExtPdf == <<".", "p", "d", "f">>

\* Optional[str] = None
None == "None"

\* Path("./output")
RutaOutput == "output"

\* carpeta_destino_path.mkdir(parents=True, exist_ok=True)
Mkdir(f, ruta) == IF ruta \in DOMAIN f THEN f ELSE Put(f, ruta, EmptyMap)

\* PDFExtractor.procesar_pdfs: the file system it leaves and the files it wrote
procesar_pdfs(f, carpeta_origen, carpeta_destino, formato_salida) ==
    LET destino == IF carpeta_destino = None THEN carpeta_origen ELSE carpeta_destino
        f1 == IF carpeta_destino = None THEN f ELSE Mkdir(f, destino)
    IN  IF carpeta_origen \notin DOMAIN f1 THEN [fs |-> f1, escritos |-> {}]
        ELSE LET archivos_pdf == {n \in DOMAIN f1[carpeta_origen] : EndsWith(n, ExtPdf)}
                 convertidos == {n \in archivos_pdf : f1[carpeta_origen][n] # <<>>}
                 extension == IF formato_salida = "md" THEN ExtMd ELSE ExtTxt
                 nombres_out == {Stem(n) \o extension : n \in convertidos}
                 pdf_de(x) == CHOOSE n \in convertidos : Stem(n) \o extension = x
                 carpeta == [x \in DOMAIN f1[destino] \cup nombres_out |->
                                IF x \in nombres_out THEN f1[carpeta_origen][pdf_de(x)]
                                ELSE f1[destino][x]]
             IN  IF archivos_pdf = {} THEN [fs |-> f1, escritos |-> {}]
                 ELSE [fs |-> Put(f1, destino, carpeta),
                       escritos |-> {<<destino, x>> : x \in nombres_out}]

\* main.py, lines 73-77: the folder of PDFs must exist
VerificarCarpeta ==
    /\ pc = "main"
    /\ pc' = IF args.carpeta_pdfs \in DOMAIN fs THEN "extraccion" ELSE "exit"
    /\ UNCHANGED <<runVars, callVars, mainVars>>

\* main.py, lines 80-85: procesar_pdfs(args.carpeta_pdfs, args.formato), the
\* format standing where the parameter carpeta_destino is
ExtraerTexto ==
    /\ pc = "extraccion"
    /\ IF ~args.solo_corpus
       THEN LET r == procesar_pdfs(fs, args.carpeta_pdfs, args.formato, "md")
            IN  /\ fs' = r.fs
                /\ escritos' = r.escritos
       ELSE UNCHANGED <<fs, escritos>>
    /\ pc' = "corpus"
    /\ UNCHANGED <<runVars, callVars, args, ruta_origen, ruta_corpus>>

\* main.py, lines 87-91: generar_corpus_monolingue("./output", args.archivo_corpus)
GenerarCorpus ==
    /\ pc = "corpus"
    /\ IF ~args.solo_extraccion
       THEN /\ ruta_origen' = RutaOutput
            /\ ruta_corpus' = args.archivo_corpus
            /\ existe_origen' = (RutaOutput \in DOMAIN fs)
            /\ staged' = IF RutaOutput \in DOMAIN fs THEN fs[RutaOutput] ELSE EmptyMap
            /\ pc' = "inicio"
       ELSE /\ pc' = "fin"
            /\ UNCHANGED <<ruta_origen, ruta_corpus, existe_origen, staged>>
    /\ UNCHANGED <<ilegibles, archivos_texto, indice, oraciones_candidatas, oraciones_awajun,
                   todas_oraciones, estadisticas_por_archivo, carpeta_corpus, aceptadas,
                   callVars, args, fs, escritos>>

NextMain ==
    \/ VerificarCarpeta
    \/ ExtraerTexto
    \/ GenerarCorpus
    \/ Next

\* the command lines of the model
Argumentos ==
    [carpeta_pdfs : {"data", "pdfs"},
     archivo_corpus : {"corpus/awajun_corpus.txt", "salida"},
     solo_extraccion : BOOLEAN, solo_corpus : BOOLEAN,
     formato : {"md", "txt"}]

APdf == <<"a", ".", "p", "d", "f">>
BPdf == <<"b", ".", "p", "d", "f">>

\* the folders of PDFs of the model: each PDF converts to a document or fails
CarpetasPdf ==
    UNION {[S -> {<<>>, Atsa \o NL \o Nuwa}] : S \in SUBSET {APdf, BPdf}}

\* what ./output may hold from earlier runs
CarpetasOutput ==
    {EmptyMap} \cup {[n \in {UnArchivo} |-> d] : d \in {Aents \o NL \o Atsa, Yumi}}

\* the file systems main may start on: data is there (crear_directorios makes
\* it beside the program), ./output is there when the program is run from its
\* own directory
SistemasDeArchivos ==
    {[d \in {"data"} |-> c] : c \in CarpetasPdf}
    \cup {[d \in {"data", RutaOutput} |-> IF d = "data" THEN c ELSE o] :
             c \in CarpetasPdf, o \in CarpetasOutput}

InitMain ==
    /\ pc = "main"
    /\ RunIdle
    /\ CallIdle
    /\ args \in Argumentos
    /\ fs \in SistemasDeArchivos
    /\ escritos = {}
    /\ ruta_origen = ""
    /\ ruta_corpus = ""

SpecMain == InitMain /\ [][NextMain]_vars

-----------------------------------------------------------------------------
(* The claims.                                                             *)

\* the per-document accepted lists, concatenated in processing order
Concatenadas == Flatten([k \in 1..Len(aceptadas) |-> aceptadas[k][2]])

\* the position of the first occurrence of x in xs
PrimeraPosicion(xs, x) ==
    CHOOSE k \in 1..Len(xs) : xs[k] = x /\ \A j \in 1..(k - 1) : xs[j] # x

\* C1: when a run over at least one staged file has finished, the consolidated
\* corpus holds no sentence twice, holds every sentence accepted from any
\* document, and lists them in the order of their first occurrence in the
\* concatenation of the per-document accepted lists.
C1_CorpusPrimeraAparicion ==
    (pc = "fin" /\ archivos_texto # <<>>) =>
        /\ CorpusConsolidado \in DOMAIN carpeta_corpus
        /\ LET corpus == carpeta_corpus[CorpusConsolidado]
               todas == Concatenadas
           IN  /\ \A p, q \in 1..Len(corpus) : p # q => corpus[p] # corpus[q]
               /\ \A k \in 1..Len(todas) : \E p \in 1..Len(corpus) : corpus[p] = todas[k]
               /\ \A p \in 1..Len(corpus) : \E k \in 1..Len(todas) : todas[k] = corpus[p]
               /\ \A p, q \in 1..Len(corpus) :
                      p < q => PrimeraPosicion(todas, corpus[p]) < PrimeraPosicion(todas, corpus[q])

\* a finished run in which a later document repeated a sentence of an earlier
\* one, and the corpus kept it once among other sentences
C1_Testigo ==
    /\ pc = "fin"
    /\ CorpusConsolidado \in DOMAIN carpeta_corpus
    /\ Len(carpeta_corpus[CorpusConsolidado]) >= 3
    /\ \E a, b \in 1..Len(aceptadas) :
          /\ a < b
          /\ \E x \in 1..Len(aceptadas[a][2]), y \in 1..Len(aceptadas[b][2]) :
                /\ aceptadas[a][2][x] = aceptadas[b][2][y]
                /\ y > 1

\* the characters of the staged names, in code-point order
OrdenCaracteres == <<".", "a", "b", "c", "d", "m", "t", "x">>
CodePoint(c) == CHOOSE k \in 1..Len(OrdenCaracteres) : OrdenCaracteres[k] = c

\* a < b as Python compares strings
RECURSIVE LexMenor(_, _)
LexMenor(a, b) ==
    IF b = <<>> THEN FALSE
    ELSE IF a = <<>> THEN TRUE
    ELSE IF Head(a) # Head(b) THEN CodePoint(Head(a)) < CodePoint(Head(b))
    ELSE LexMenor(Tail(a), Tail(b))

\* C2: the staged documents are processed in lexicographic order of their
\* file names.
C2_OrdenLexicografico ==
    \A p, q \in 1..Len(archivos_texto) :
        p < q => LexMenor(archivos_texto[p], archivos_texto[q])

\* C3: for a sentence shorter than 10 characters detect is never invoked and
\* the decision is the one of the noise patterns and the administrative
\* terms alone, whatever detect would answer.
C3_CortaSinDeteccion ==
    (pc = "fin" /\ Len(texto) < 10) =>
        /\ invocaciones = 0
        /\ resultado = (es_ruido_tecnico(texto) \/ es_administrativo(texto))

\* a short sentence kept although detect would have answered "es"
C3_Testigo ==
    /\ pc = "fin"
    /\ Len(texto) = 9
    /\ idioma = "es"
    /\ invocaciones = 0
    /\ resultado = FALSE

\* C4: the classifier answers true exactly when the sentence matches a noise
\* pattern, or holds an administrative term, or has at least 10 characters and
\* detect returns one of es, en, fr, it, pt, de; a detection failure keeps.
C4_Decision ==
    pc = "fin" =>
        resultado =
            \/ es_ruido_tecnico(texto)
            \/ es_administrativo(texto)
            \/ (Len(texto) >= 10 /\ idioma \in {"es", "en", "fr", "it", "pt", "de"})

\* a sentence of 10 characters, free of noise and of administrative terms,
\* on which detect was invoked and answered "de": discarded
C4_Testigo ==
    /\ pc = "fin"
    /\ Len(texto) = 10
    /\ ~es_ruido_tecnico(texto)
    /\ ~es_administrativo(texto)
    /\ idioma = "de"
    /\ invocaciones = 1
    /\ resultado = TRUE

\* C5: the normalizer is idempotent: normalizing its own result changes nothing.
C5_Idempotente == pc = "fin" => resultado2 = resultado

\* C6: the cleaned text has no whitespace at either end, does not start with
\* "- " nor with the bullet, and does not end with digits.
C6_SalidaLimpia ==
    pc = "fin" =>
        /\ resultado # <<>> => (resultado[1] \notin Ws /\ resultado[Len(resultado)] \notin Ws)
        /\ ~StartsWithAt(resultado, 1, <<"-", " ">>)
        /\ CharAt(resultado, 1) # Bullet
        /\ CharAt(resultado, Len(resultado)) \notin Digits

Repetir(c, n) == [k \in 1..n |-> c]

\* "- ", the word, a run of 3 or more dots with or without a space on either
\* side, and the number
EsLineaIndice(t) ==
    \E a, b \in {0, 1}, n \in 3..Len(t) :
        t = <<"-", " ">> \o Yusa \o Repetir(" ", a) \o Repetir(".", n)
              \o Repetir(" ", b) \o <<"6">>

\* C7: of a table-of-contents line the cleaner returns just the word.
C7_SoloLaPalabra ==
    (pc = "fin" /\ EsLineaIndice(texto)) => resultado = Yusa

\* what the claim says one cell of a table row yields: nothing when the
\* trimmed cell is empty, dashes (the code's test lets whitespace separate
\* them) or digits; its cleaned text (the table pass removes leaders and dot
\* runs, then calls the cleaner) when that is longer than 3 characters;
\* a cell that holds a bullet is left to the code
UnidadesEsperadas(celda) ==
    LET t == Strip(celda)
        limpio == limpiar_oracion(LimpiarPuntosCelda(t))
    IN  IF t = <<>> \/ AllIn(t, {"-"} \cup Ws) \/ AllIn(t, Digits) THEN <<>>
        ELSE IF TieneBullet(t) THEN UnidadesDeCelda(celda)
        ELSE IF Len(limpio) > 3 THEN <<limpio>>
        ELSE <<>>

\* C8: a line that holds "|" yields nothing when it is made of dashes, pipes
\* and whitespace only, and otherwise yields, in cell order, what each cell
\* yields by UnidadesEsperadas.
C8_UnidadesDeTabla ==
    (pc = "fin" /\ TieneBarra(texto)) =>
        IF AllIn(texto, {"-", "|"} \cup Ws)
        THEN resultado = <<>>
        ELSE LET celdas == Split(texto, "|")
             IN  resultado = Flatten([k \in 1..Len(celdas) |-> UnidadesEsperadas(celdas[k])])

\* a row with a digit cell between two text cells: two units
C8_Testigo ==
    /\ pc = "fin"
    /\ texto = Nombre \o <<"|", "4", "|">> \o Nombre
    /\ resultado = <<Nombre, Nombre>>

\* the punctuation characters of the model
Puntuacion ==
    {".", ",", ";", ":", "!", "?", "-", "_", "|", "*", "#", "=", "(", ")", "[", "]",
     "<", ">", Backtick, Bullet}

\* C9: every accepted sentence is non-empty, has at least 3 characters and is
\* not made of punctuation, whitespace and numerals only.
C9_OracionesValidas ==
    \A k \in 1..Len(oraciones_awajun) :
        LET o == oraciones_awajun[k]
        IN  /\ o # <<>>
            /\ Len(o) >= 3
            /\ ~AllIn(o, Puntuacion \cup Ws \cup Digits)

\* C10: after a complete run every processed document has its artifact
\* <stem>_awajun.txt, whose lines are that document's accepted sentences.
C10_ArtefactoPorDocumento ==
    pc = "fin" =>
        \A k \in 1..Len(aceptadas) :
            /\ NombreAwajun(aceptadas[k][1]) \in DOMAIN carpeta_corpus
            /\ carpeta_corpus[NombreAwajun(aceptadas[k][1])] = aceptadas[k][2]

\* the accepted lists of the documents that could be read, concatenated in
\* processing order
ConcatenadasLegibles ==
    Flatten([k \in 1..Len(aceptadas) |->
                IF aceptadas[k][1] \in ilegibles THEN <<>> ELSE aceptadas[k][2]])

\* the step that closes a document whose read failed writes no artifact, adds
\* no sentence, records the count 0 and goes on with the run
CierreDeIlegible ==
    (pc = "filtrar" /\ pc' # "filtrar" /\ archivos_texto[indice] \in ilegibles) =>
        /\ carpeta_corpus' = carpeta_corpus
        /\ todas_oraciones' = todas_oraciones
        /\ archivos_texto[indice] \in DOMAIN estadisticas_por_archivo'
        /\ estadisticas_por_archivo'[archivos_texto[indice]] = 0
        /\ pc' = IF indice = Len(archivos_texto) THEN "consolidar" ELSE "extraer"

\* at the end of a run over at least one staged file: every staged file was
\* processed once; a file whose read failed gave no sentence and has the count
\* 0; every other file's accepted sentences are candidates of its own content;
\* and the corpus is the one of the readable documents alone
FinConIlegibles ==
    (pc = "fin" /\ archivos_texto # <<>>) =>
        /\ Len(aceptadas) = Cardinality(DOMAIN staged)
        /\ {aceptadas[k][1] : k \in 1..Len(aceptadas)} = DOMAIN staged
        /\ \A k \in 1..Len(aceptadas) :
              LET archivo == aceptadas[k][1]
                  oraciones == aceptadas[k][2]
              IN  /\ archivo \in DOMAIN estadisticas_por_archivo
                  /\ estadisticas_por_archivo[archivo] = Len(oraciones)
                  /\ IF archivo \in ilegibles
                     THEN oraciones = <<>>
                     ELSE LET candidatas == segmentar_oraciones(limpiar_texto(staged[archivo]))
                          IN  \A j \in 1..Len(oraciones) :
                                  \E c \in 1..Len(candidatas) : candidatas[c] = oraciones[j]
        /\ CorpusConsolidado \in DOMAIN carpeta_corpus
        /\ LET corpus == carpeta_corpus[CorpusConsolidado]
               todas == ConcatenadasLegibles
           IN  /\ \A q \in 1..Len(todas) : \E p \in 1..Len(corpus) : corpus[p] = todas[q]
               /\ \A p \in 1..Len(corpus) : \E q \in 1..Len(todas) : todas[q] = corpus[p]
               /\ \A p, q \in 1..Len(corpus) :
                      p < q => PrimeraPosicion(todas, corpus[p]) < PrimeraPosicion(todas, corpus[q])

\* C11: a staged file whose read fails contributes no sentence, is recorded
\* with the count 0 and gets no artifact written, and the run continues: every
\* other staged document is processed and the corpus holds the accepted
\* sentences of the readable documents, as if the failing file were absent.
C11_LecturaFallida == [][CierreDeIlegible]_vars /\ []FinConIlegibles

\* a finished run in which the first file could not be read and a later one
\* gave the sentences of the corpus
C11_Testigo ==
    /\ pc = "fin"
    /\ Len(aceptadas) = 2
    /\ aceptadas[1][1] \in ilegibles
    /\ aceptadas[2][1] \notin ilegibles
    /\ aceptadas[2][2] # <<>>
    /\ estadisticas_por_archivo[aceptadas[1][1]] = 0
    /\ NombreAwajun(aceptadas[1][1]) \notin DOMAIN carpeta_corpus
    /\ CorpusConsolidado \in DOMAIN carpeta_corpus
    /\ carpeta_corpus[CorpusConsolidado] = DictFromKeys(aceptadas[2][2])

\* C12: the units of the table pass come before the units of the line pass,
\* each group in the order of the lines; a line that holds "|" gives units to
\* the table pass only and no line gives fragments to both passes; the cleaner
\* is never called on a fragment that holds "|".
C12_TablasAntesQueLineas ==
    pc = "fin" =>
        LET lineas == Split(texto, "\n")
        IN  /\ resultado =
                   Flatten([k \in 1..Len(lineas) |->
                               IF TieneBarra(lineas[k]) THEN UnidadesDeFila(lineas[k]) ELSE <<>>])
                   \o Flatten([k \in 1..Len(lineas) |->
                                  IF TieneBarra(lineas[k]) THEN <<>> ELSE UnidadesDeLinea(lineas[k])])
            /\ \A k \in 1..Len(lineas) :
                   FragmentosDeFila(lineas[k]) = <<>> \/ FragmentosDeLinea(lineas[k]) = <<>>
            /\ \A k \in 1..Len(resultado2) : ~TieneBarra(resultado2[k])

\* a plain line followed by a row: the units of the row come first
C12_Testigo ==
    /\ pc = "fin"
    /\ texto = Nombre \o NL \o Fila
    /\ resultado = <<Nuwa, Aents, Nombre>>
    /\ resultado2 = <<Nuwa, Aents, Nombre>>

\* C13: in a full run of main the directory procesar_pdfs writes into is the
\* directory generar_corpus_monolingue reads, every document converted in the
\* run is processed by the corpus stage, and the artifacts go under the corpus
\* location of the command line.
C13_UnaSolaAreaDeTransito ==
    (pc = "fin" /\ ~args.solo_extraccion /\ ~args.solo_corpus) =>
        /\ \A e \in escritos :
              /\ e[1] = ruta_origen
              /\ \E k \in 1..Len(aceptadas) : aceptadas[k][1] = e[2]
        /\ ruta_corpus = args.archivo_corpus

=============================================================================
